---- MODULE Spec2Model ----
(***************************************************************************)
(* A model of the filtered tabular data access layer of gsheet-bun:        *)
(*   - GoogleSheetsService.readValues: the read-through cache (TTL,        *)
(*     capacity, single-flight coalescing) in front of the backend fetch;  *)
(*   - GoogleSheetsService.updateRows / appendRow and the updateSheet      *)
(*     controller (upsert) on top of it;                                   *)
(*   - FiltersService (coercePair, compare, like, between, inList,         *)
(*     matchCondition, buildPredicate) and normalizeRows, call by call     *)
(*     (SpecFilter): the arguments of a call are drawn at the start, and   *)
(*     the one step of a behaviour is the call returning or throwing.      *)
(*                                                                         *)
(* Scheduling.  The service runs on one JavaScript event loop.  A logical  *)
(* caller (a request handler) runs without interruption up to the point    *)
(* where it waits for the backend, so one action is the synchronous part   *)
(* of a call, or the arrival of a backend response together with every     *)
(* promise reaction it triggers (the .then callback that stores the cache  *)
(* entry, the .finally callback that deregisters the in-flight promise and *)
(* the continuations of the callers awaiting it).  The backend is remote:  *)
(* it serves a request at one instant (BackendServe) and the response      *)
(* reaches the service later (the Settle actions).                         *)
(***************************************************************************)
EXTENDS Integers, Sequences, FiniteSets, TLC

\* ------------------------------------------------------------------ bounds
NumProcs == 2       \* logical callers that may be in flight together
NumKeys == 2        \* distinct cache keys (spreadsheetId:range) read in Spec
NumLruKeys == 4     \* distinct cache keys read in SpecLru
MaxTime == 2        \* Date.now() ranges over 0..MaxTime
MaxEdits == 1       \* edits of a sheet made outside the service
NumWriters == 1     \* callers that issue write requests in SpecWrite
MaxWriteCalls == 2  \* write requests issued in a run of SpecWrite

\* ------------------------------------------------------- program constants
CACHE_TTL == 1
CACHE_MAX_ENTRIES == 2

Procs == 1..NumProcs
Writers == {p \in Procs : p <= NumWriters}
Keys == 1..NumKeys
LruKeys == 1..NumLruKeys
AllKeys == Keys \cup LruKeys

\* ------------------------------------------------------------------ values
\* A cell or JSON scalar: a number or a string (the tag keeps 1 and "1" apart).
N(i) == [t |-> "num", n |-> i, s |-> ""]
S(x) == [t |-> "str", n |-> 0, s |-> x]

VARIABLES
    now,            \* Date.now()
    readCache,      \* the Map readCache, in insertion order (a sequence)
    inflightReads,  \* the Map inflightReads: key -> promise (0: none)
    fetches,        \* the backend fetches under way, named by their starter
    sheet,          \* the backend: key -> grid of rows
    proc,           \* each logical caller's position and result
    req,            \* each caller's write request and its progress
    lastEvicted,    \* what the step just taken evicted for capacity
    edits,          \* number of outside edits so far
    writeCalls,     \* number of write requests issued so far
    engine,         \* how the runtime's Date parses digits that are no ISO date
    eval            \* a call of a pure function: its arguments and its result

svcVars == <<now, readCache, inflightReads, fetches, sheet, proc, req,
             lastEvicted, edits, writeCalls>>

evalVars == <<engine, eval>>

vars == <<now, readCache, inflightReads, fetches, sheet, proc, req, lastEvicted,
          edits, writeCalls, engine, eval>>

\* ------------------------------------------------------------------ cache
NoRows == <<>>
NoResult == [st |-> "none", rows |-> NoRows]
RowsResult(rows) == [st |-> "rows", rows |-> rows]
ErrorResult == [st |-> "error", rows |-> NoRows]

NoFetch ==
    [st |-> "none", key |-> 0, useCache |-> FALSE, at |-> 0,
     ok |-> TRUE, rows |-> NoRows, old |-> FALSE]

IdleProc ==
    [pc |-> "idle", op |-> "none", key |-> 0, useCache |-> FALSE, at |-> 0,
     src |-> "none", awaiting |-> 0, result |-> NoResult, stale |-> FALSE]

CacheKeys(cache) == {cache[i].key : i \in 1..Len(cache)}

HasKey(cache, k) == k \in CacheKeys(cache)

\* Map.get: the entry stored under k (k is in the cache)
CacheGet(cache, k) == cache[CHOOSE i \in 1..Len(cache) : cache[i].key = k]

\* Map.delete
CacheDelete(cache, k) == SelectSeq(cache, LAMBDA e : e.key # k)

\* Map.set: a new key goes last, a key already present keeps its place
CacheSet(cache, e) ==
    IF HasKey(cache, e.key)
    THEN [i \in 1..Len(cache) |-> IF cache[i].key = e.key THEN e ELSE cache[i]]
    ELSE Append(cache, e)

\* The access order kept beside the Map for the LRU claim: acc is the rank of
\* the entry's last access (its insertion or its last hit) among the entries.
MaxAcc(cache) ==
    IF cache = <<>> THEN 0
    ELSE CHOOSE a \in {cache[i].acc : i \in 1..Len(cache)} :
             \A i \in 1..Len(cache) : cache[i].acc <= a

MinAcc(cache) ==
    CHOOSE a \in {cache[i].acc : i \in 1..Len(cache)} :
        \A i \in 1..Len(cache) : a <= cache[i].acc

Rerank(cache) ==
    [i \in 1..Len(cache) |->
        [cache[i] EXCEPT !.acc =
            Cardinality({j \in 1..Len(cache) : cache[j].acc <= cache[i].acc})]]


\* The Map's own order is what the code evicts by; acc is only compared to it.
Touch(cache, k) ==
    Rerank([i \in 1..Len(cache) |->
        IF cache[i].key = k
        THEN [cache[i] EXCEPT !.acc = MaxAcc(cache) + 1]
        ELSE cache[i]])

\* readValues, line 137: the entry is served while now - timestamp <= CACHE_TTL
IsFreshStrict(entry, t) == t - entry.timestamp < CACHE_TTL

IsFresh(entry, t) == t - entry.timestamp <= CACHE_TTL

\* pruneCache, line 109
IsExpired(entry, t) == t - entry.timestamp > CACHE_TTL

PruneExpired(cache, t) == SelectSeq(cache, LAMBDA e : ~IsExpired(e, t))

\* pruneCache, line 115: this.readCache.keys().next().value
NewestKey(cache) == cache[Len(cache)].key

OldestKey(cache) == cache[1].key

\* pruneCache, lines 114-118: the capacity loop
RECURSIVE EvictLoop(_)
EvictLoop(cache) ==
    IF Len(cache) > CACHE_MAX_ENTRIES
    THEN EvictLoop(CacheDelete(cache, OldestKey(cache)))
    ELSE cache

\* What the capacity loop removes, each with the oldest access rank in the
\* cache at that moment.
RECURSIVE Evictions(_)
Evictions(cache) ==
    IF Len(cache) > CACHE_MAX_ENTRIES
    THEN <<[key |-> OldestKey(cache),
            acc |-> CacheGet(cache, OldestKey(cache)).acc,
            timestamp |-> CacheGet(cache, OldestKey(cache)).timestamp,
            minAcc |-> MinAcc(cache)]>>
         \o Evictions(CacheDelete(cache, OldestKey(cache)))
    ELSE <<>>

pruneCache(cache, t) == EvictLoop(PruneExpired(cache, t))

\* readValues, lines 139-140: delete and set again, so the entry goes last
KeepPlace(cache, k) == Touch(cache, k)

MarkRecentlyUsed(cache, k) ==
    Touch(CacheSet(CacheDelete(cache, k), CacheGet(cache, k)), k)

\* readValues, line 148: a cached miss joins the pending fetch of its key
NeverCoalesces(inflight, k, useCache) == FALSE

Coalesces(inflight, k, useCache) == useCache /\ inflight[k] # 0

NewFetch(k, useCache, t) ==
    [st |-> "sent", key |-> k, useCache |-> useCache, at |-> t,
     ok |-> TRUE, rows |-> NoRows, old |-> FALSE]

\* Bookkeeping for the freshness claims: a response the backend has already
\* served is marked old when an uncached read of its key is issued.
MarkOld(fs, k) ==
    [f \in Procs |->
        IF fs[f].st = "served" /\ fs[f].key = k
        THEN [fs[f] EXCEPT !.old = TRUE]
        ELSE fs[f]]

\* readValues, lines 131-171, up to the return of the promise: the new cache,
\* in-flight registry and fetches, where the result comes from (src), the
\* promise awaited (awaiting: the starter of the fetch) and the rows of a hit.
readValues(cache, inflight, fs, p, k, useCache, t) ==
    LET has == HasKey(cache, k)
        hit == useCache /\ has /\ IsFresh(CacheGet(cache, k), t)
        c1 == IF useCache /\ has THEN CacheDelete(cache, k) ELSE cache
        c2 == IF ~useCache THEN CacheDelete(c1, k) ELSE c1
    IN  IF hit
        THEN [cache |-> MarkRecentlyUsed(cache, k), inflight |-> inflight,
              fetches |-> fs, src |-> "cache", awaiting |-> 0,
              rows |-> CacheGet(cache, k).data,
              stale |-> CacheGet(cache, k).old]
        ELSE IF Coalesces(inflight, k, useCache)
        THEN [cache |-> c2, inflight |-> inflight,
              fetches |-> fs, src |-> "fetch", awaiting |-> inflight[k],
              rows |-> NoRows, stale |-> fs[inflight[k]].old]
        ELSE [cache |-> c2,
              inflight |-> IF useCache THEN [inflight EXCEPT ![k] = p]
                           ELSE inflight,
              fetches |-> [(IF useCache THEN fs ELSE MarkOld(fs, k))
                              EXCEPT ![p] = NewFetch(k, useCache, t)],
              src |-> "fetch", awaiting |-> p,
              rows |-> NoRows, stale |-> FALSE]

\* readValues, lines 156-162: the .then callback of the fetch
StoreAlways(cache, f, values) ==
    CacheSet(pruneCache(cache, f.at),
             [key |-> f.key, timestamp |-> f.at, data |-> values,
              acc |-> 0, old |-> f.old, useCache |-> f.useCache])

ThenStoreAtSettle(cache, f, values) ==
    IF f.useCache
    THEN Touch(CacheSet(pruneCache(cache, f.at),
                        [key |-> f.key, timestamp |-> now, data |-> values,
                         acc |-> 0, old |-> f.old, useCache |-> f.useCache]),
               f.key)
    ELSE cache

ThenStore(cache, f, values) ==
    IF f.useCache
    THEN Touch(CacheSet(pruneCache(cache, f.at),
                        [key |-> f.key, timestamp |-> f.at, data |-> values,
                         acc |-> 0, old |-> f.old, useCache |-> f.useCache]),
               f.key)
    ELSE cache

\* readValues, lines 164-169: the .finally callback, on success and failure
DeregisterOnSuccess(inflight, f) ==
    IF f.useCache /\ f.ok THEN [inflight EXCEPT ![f.key] = 0] ELSE inflight

FinallyDeregister(inflight, f) ==
    IF f.useCache THEN [inflight EXCEPT ![f.key] = 0] ELSE inflight

\* fetchSheetValues, lines 191-196: the rows, or the error thrown
FetchResult(f) == IF f.ok THEN RowsResult(f.rows) ELSE ErrorResult


\* ------------------------------------------------------- predicate engine
\* undefined (a field the row does not have, a key the condition lacks)
Undef == [t |-> "undef", n |-> 0, s |-> ""]
\* null
Null == [t |-> "null", n |-> 0, s |-> ""]
B(b) == [t |-> "bool", n |-> IF b THEN 1 ELSE 0, s |-> ""]

\* The arrays a condition may carry as value or values; L(i) is the i-th
ListTable ==
    << <<>>,
       <<N(1)>>,
       <<N(1), N(2)>>,
       <<N(2), N(1)>>,
       <<S("x"), Undef>>,
       <<N(0), S("2024-06"), N(2)>> >>

L(i) == [t |-> "list", n |-> i, s |-> ""]
Items(v) == ListTable[v.n]

\* A JSON object that is not an array
Obj == [t |-> "obj", n |-> 0, s |-> ""]

\* JavaScript truthiness (values || value, !input, !where)
Truthy(v) ==
    CASE v.t \in {"undef", "null"} -> FALSE
      [] v.t = "num" -> v.n # 0
      [] v.t = "str" -> v.s # ""
      [] v.t = "bool" -> v.n = 1
      [] OTHER -> TRUE

\* The strings of the model, in the order JavaScript compares them
StrOrder == <<"", "0", "0,2024-06,2", "1", "1,2", "2", "2,1", "2024", "2024-01",
              "2024-06", "[object Object]", "false", "id", "name", "null",
              "other", "q", "true", "undefined", "x", "x,", "y", "z">>

StrRank(x) == CHOOSE i \in 1..Len(StrOrder) : StrOrder[i] = x

\* String(array): the items joined by commas, undefined as nothing
ListStr == <<"", "1", "1,2", "2,1", "x,", "0,2024-06,2">>

\* String(value)
ToStr(v) ==
    CASE v.t = "str" -> v.s
      [] v.t = "num" -> (CASE v.n = 0 -> "0" [] v.n = 1 -> "1" [] v.n = 2 -> "2"
                           [] OTHER -> "2024")
      [] v.t = "bool" -> (IF v.n = 1 THEN "true" ELSE "false")
      [] v.t = "null" -> "null"
      [] v.t = "list" -> ListStr[v.n]
      [] v.t = "obj" -> "[object Object]"
      [] OTHER -> "undefined"

\* filters.ts, lines 23-25
isNullish(v) == v.t \in {"undef", "null"} \/ (v.t = "str" /\ v.s = "")

\* filters.ts, lines 27-36: 1 true, 0 false, -1 null
toBool(v) ==
    CASE v.t = "bool" -> v.n
      [] v.t = "num" -> (IF v.n # 0 THEN 1 ELSE 0)
      [] v.t = "str" /\ v.s \in {"true", "y", "1"} -> 1
      [] v.t = "str" /\ v.s \in {"false", "0"} -> 0
      [] OTHER -> -1

\* filters.ts, lines 38-45: parseFloat of the model's strings (the longest
\* numeric prefix); -1 null
toNumber(v) ==
    CASE v.t = "num" -> v.n
      [] v.t = "str" /\ v.s = "0" -> 0
      [] v.t = "str" /\ v.s = "1" -> 1
      [] v.t = "str" /\ v.s = "2" -> 2
      [] v.t = "str" /\ v.s \in {"2024", "2024-01", "2024-06"} -> 2024
      [] OTHER -> -1

\* new Date(string) of the model's strings, as year * 100 + month; -1 an
\* invalid date.  The ISO forms YYYY and YYYY-MM are fixed by ECMAScript; a
\* string of digits that is not an ISO form is parsed as the engine likes:
\* refused ("strict"), or read as a month of 2001 and 0 as the year 2000
\* ("legacy").  The other strings of the model are dates in no engine.
DateOf(str, eng) ==
    CASE str \in {"2024", "2024-01"} -> 202401
      [] str = "2024-06" -> 202406
      [] str = "0" /\ eng = "legacy" -> 200001
      [] str = "1" /\ eng = "legacy" -> 200101
      [] str = "2" /\ eng = "legacy" -> 200102
      [] OTHER -> -1

\* filters.ts, lines 47-54: no value of a request or of a sheet is a Date
\* object, so only a string can become a Date; -1 null
toDateTime(v) == IF v.t = "str" THEN DateOf(v.s, engine) ELSE -1

\* filters.ts, lines 83-85: lhs === null ? "" : String(lhs)
coerceString(v) == IF v.t = "null" THEN "" ELSE ToStr(v)

\* filters.ts, lines 56-88: <<a, b, kind>>; a and b are numbers for the kinds
\* datetime, number and bool, and the ranks of the strings for the kind string
coercePairNumberLast(lhs, rhs) ==
    IF isNullish(lhs) /\ isNullish(rhs) THEN <<0, 0, "null">>
    ELSE IF toDateTime(lhs) # -1 /\ toDateTime(rhs) # -1
    THEN <<toDateTime(lhs), toDateTime(rhs), "datetime">>
    ELSE IF toBool(lhs) # -1 /\ toBool(rhs) # -1
    THEN <<toBool(lhs), toBool(rhs), "bool">>
    ELSE IF toNumber(lhs) # -1 /\ toNumber(rhs) # -1
    THEN <<toNumber(lhs), toNumber(rhs), "number">>
    ELSE <<StrRank(coerceString(lhs)), StrRank(coerceString(rhs)), "string">>

coercePair(lhs, rhs) ==
    IF isNullish(lhs) /\ isNullish(rhs) THEN <<0, 0, "null">>
    ELSE IF toDateTime(lhs) # -1 /\ toDateTime(rhs) # -1
    THEN <<toDateTime(lhs), toDateTime(rhs), "datetime">>
    ELSE IF toNumber(lhs) # -1 /\ toNumber(rhs) # -1
    THEN <<toNumber(lhs), toNumber(rhs), "number">>
    ELSE IF toBool(lhs) # -1 /\ toBool(rhs) # -1
    THEN <<toBool(lhs), toBool(rhs), "bool">>
    ELSE <<StrRank(coerceString(lhs)), StrRank(coerceString(rhs)), "string">>

\* filters.ts, lines 93-116: compare on the coerced pair.  Two Date objects
\* are never === each other.
comparedOrdersBools(a, b, kind, op) ==
    IF kind = "null"
    THEN op = "eq"
    ELSE CASE op = "eq" -> kind # "datetime" /\ a = b
           [] op = "ne" -> ~(kind # "datetime" /\ a = b)
           [] op = "gt" -> a > b
           [] op = "gte" -> a >= b
           [] op = "lt" -> a < b
           [] op = "lte" -> a <= b
           [] OTHER -> FALSE

compared(a, b, kind, op) ==
    IF kind = "null"
    THEN op = "eq"
    ELSE CASE op = "eq" -> kind # "datetime" /\ a = b
           [] op = "ne" -> ~(kind # "datetime" /\ a = b)
           [] op = "gt" -> kind # "bool" /\ a > b
           [] op = "gte" -> kind # "bool" /\ a >= b
           [] op = "lt" -> kind # "bool" /\ a < b
           [] op = "lte" -> kind # "bool" /\ a <= b
           [] OTHER -> FALSE

\* filters.ts, lines 90-117
compare(lhs, rhs, op) ==
    LET c == coercePair(lhs, rhs)
    IN  compared(c[1], c[2], c[3], op)

\* a.includes(b), a being the string of a cell (all are lower case)
Includes(a, b) ==
    \/ b = ""
    \/ a = b
    \/ <<a, b>> \in { <<"2024", "0">>, <<"2024", "2">>,
                      <<"2024-01", "0">>, <<"2024-01", "1">>, <<"2024-01", "2">>,
                      <<"2024-01", "2024">>,
                      <<"2024-06", "0">>, <<"2024-06", "2">>, <<"2024-06", "2024">> }

\* filters.ts, lines 119-122
like(cell, pattern) ==
    /\ ~isNullish(cell)
    /\ ~isNullish(pattern)
    /\ Includes(ToStr(cell), ToStr(pattern))

\* filters.ts, lines 128-138: between on the two coerced pairs
betweenAnyKinds(c1, c2) ==
    IF c1[3] = "null" \/ c2[3] = "null"
    THEN FALSE
    ELSE c1[1] >= c1[2] /\ c2[1] <= c2[2]

betweenCoerced(c1, c2) ==
    IF c1[3] = "null" \/ c2[3] = "null" \/ c1[3] # c2[3]
    THEN FALSE
    ELSE c1[1] >= c1[2] /\ c2[1] <= c2[2]

\* filters.ts, lines 124-139
between(cell, low, high) ==
    betweenCoerced(coercePair(cell, low), coercePair(cell, high))

\* filters.ts, lines 141-143
inList(cell, options) ==
    \E i \in 1..Len(options) : compare(cell, options[i], "eq")

\* row[field]
Cell(row, field) == IF field \in DOMAIN row THEN row[field] ELSE Undef

\* A condition: obj is false for a condition that is no object (a string,
\* null); field "" is a condition without a field; operator NoOperator is a
\* condition without an operator; value and values are Undef when missing.
NoOperator == "(none)"

Cond(f, op, v) ==
    [obj |-> TRUE, field |-> f, operator |-> op, value |-> v, values |-> Undef]

CondValues(f, op, v, vs) ==
    [obj |-> TRUE, field |-> f, operator |-> op, value |-> v, values |-> vs]

NotACond ==
    [obj |-> FALSE, field |-> "", operator |-> NoOperator, value |-> Undef,
     values |-> Undef]

\* String(operator).toLowerCase(), with the default of the destructuring
Lower(x) == CASE x = "EQ" -> "eq" [] x = "IN" -> "in" [] OTHER -> x

operatorOf(cond) ==
    IF cond.operator = NoOperator THEN "eq" ELSE Lower(cond.operator)

\* matchCondition, line 190: values || value
pairOf(cond) == IF Truthy(cond.values) THEN cond.values ELSE cond.value

\* matchCondition, line 198: values || (Array.isArray(value) ? value : [value])
\* (used where it is an array: see matchThrows)
optionsOf(cond) ==
    IF Truthy(cond.values)
    THEN (IF cond.values.t = "list" THEN Items(cond.values) ELSE <<>>)
    ELSE IF cond.value.t = "list" THEN Items(cond.value)
    ELSE <<cond.value>>

\* matchCondition, lines 198-199: options.some is called on a truthy values
\* that is not an array: a TypeError
matchThrows(row, cond) ==
    /\ cond.obj
    /\ cond.field # ""
    /\ operatorOf(cond) \in {"in", "not_in"}
    /\ Truthy(cond.values)
    /\ cond.values.t # "list"

\* matchCondition, lines 182-204: the switch on the operator
matchOperator(cell, op, cond) ==
    CASE op = "is_null" -> isNullish(cell)
      [] op = "is_not_null" -> ~isNullish(cell)
      [] op = "like" -> like(cell, cond.value)
      [] op = "between" ->
             (IF pairOf(cond).t = "list" /\ Len(Items(pairOf(cond))) >= 2
              THEN between(cell, Items(pairOf(cond))[1], Items(pairOf(cond))[2])
              ELSE FALSE)
      [] op \in {"in", "not_in"} ->
             ((op = "in") <=> inList(cell, optionsOf(cond)))
      [] OTHER -> compare(cell, cond.value, op)

\* filters.ts, lines 174-205: the value returned when the call does not throw
matchCondition(row, cond) ==
    IF ~cond.obj THEN FALSE
    ELSE IF cond.field = "" THEN FALSE
    ELSE matchOperator(Cell(row, cond.field), operatorOf(cond), cond)

\* buildPredicate, lines 160-170: the groups combined
groupsOkBoth(hasAnd, hasOr, andOk, orOk) ==
    IF hasAnd /\ hasOr THEN andOk /\ orOk
    ELSE IF hasAnd THEN andOk
    ELSE IF hasOr THEN orOk
    ELSE TRUE

groupsOk(hasAnd, hasOr, andOk, orOk) ==
    IF hasAnd /\ hasOr THEN andOk \/ orOk
    ELSE IF hasAnd THEN andOk
    ELSE IF hasOr THEN orOk
    ELSE TRUE

\* filters.ts, lines 156-171: the predicate returned, on the groups after
\* asArray: where is [and |-> conditions, or |-> conditions]
buildPredicate(where, row) ==
    groupsOk(Len(where.and) > 0, Len(where.or) > 0,
             \A i \in 1..Len(where.and) : matchCondition(row, where.and[i]),
             \E i \in 1..Len(where.or) : matchCondition(row, where.or[i]))

\* An absent where (updateRows, lines 351-353)
NoWhere == [absent |-> TRUE, and |-> <<>>, or |-> <<>>]
Where(a, o) == [absent |-> FALSE, and |-> a, or |-> o]

Predicate(where, row) == where.absent \/ buildPredicate(where, row)

\* A group of a where-tree as the request carries it: absent (or falsy), one
\* condition that is not in an array, or an array of conditions
NoGroup == [shape |-> "absent", conds |-> <<>>]
OneCond(c) == [shape |-> "one", conds |-> <<c>>]
CondList(cs) == [shape |-> "list", conds |-> cs]

\* filters.ts, lines 17-20
asArray(input) == IF input.shape = "absent" THEN <<>> ELSE input.conds

\* A where-tree as the request carries it.  kind: "absent" (undefined, null),
\* "falsy" (0, "", false), "scalar" (a truthy value that is no object) or
\* "object"; an object has its groups and may itself carry a condition.
Tree(kind, a, o, c) == [kind |-> kind, and |-> a, or |-> o, cond |-> c]
NoTree == Tree("absent", NoGroup, NoGroup, NotACond)

\* The payload of buildPredicate: the tree itself, or {where: tree}
Payload(wrapped, tree) == [wrapped |-> wrapped, tree |-> tree]

\* buildPredicate, line 146: payload?.where || payload
whereOf(payload) ==
    IF payload.wrapped /\ payload.tree.kind \in {"absent", "falsy"}
    THEN Tree("object", NoGroup, NoGroup, NotACond)
    ELSE payload.tree

\* filters.ts, lines 145-172: buildPredicate(payload)(row)
compiled(payload, row) ==
    LET where == whereOf(payload)
    IN  IF where.kind # "object" THEN TRUE
        ELSE buildPredicate([and |-> asArray(where.and),
                             or |-> asArray(where.or)], row)

\* ---------------------------------------------------------- row normalizer
\* service.ts, lines 199-218: one record per raw row; a header name that
\* occurs twice keeps the cell of its last column
normalizeRowShort(headers, row) ==
    [name \in {ToStr(headers[i]) : i \in 1..Len(headers)} |->
        LET i == CHOOSE j \in 1..Len(headers) :
                     /\ ToStr(headers[j]) = name
                     /\ \A m \in 1..Len(headers) : ToStr(headers[m]) = name => m <= j
        IN  IF i < Len(row) THEN row[i] ELSE S("")]

normalizeRow(headers, row) ==
    [name \in {ToStr(headers[i]) : i \in 1..Len(headers)} |->
        LET i == CHOOSE j \in 1..Len(headers) :
                     /\ ToStr(headers[j]) = name
                     /\ \A m \in 1..Len(headers) : ToStr(headers[m]) = name => m <= j
        IN  IF i <= Len(row) THEN row[i] ELSE S("")]

normalizeRows(headers, rawRows) ==
    IF Len(rawRows) = 0 \/ Len(headers) = 0 THEN <<>>
    ELSE [r \in 1..Len(rawRows) |-> normalizeRow(headers, rawRows[r])]

\* --------------------------------------------------------- write coordinator
\* The patch (data) is the list of its Object.entries: <<[key, value], ...>>
DataEntry(k, v) == [key |-> k, value |-> v]

\* data[h]: the value of the entry named h, Undef without one
DataGet(data, h) ==
    IF \E i \in 1..Len(data) : data[i].key = h
    THEN data[CHOOSE i \in 1..Len(data) : data[i].key = h].value
    ELSE Undef

\* headers.indexOf(key): the first column whose header is the string key; 0 none
HeaderIndex(headers, key) ==
    IF \E i \in 1..Len(headers) : headers[i] = S(key)
    THEN CHOOSE i \in 1..Len(headers) :
             /\ headers[i] = S(key)
             /\ \A j \in 1..Len(headers) : headers[j] = S(key) => i <= j
    ELSE 0

\* x !== undefined && x !== null ? x : ""
OrEmpty(v) == IF v.t \in {"undef", "null"} THEN S("") ELSE v

\* updateRows, lines 347-348 (appendRow, line 432): values[0] ?? [] and
\* values.slice(1)
headersOf(values) == IF Len(values) > 0 THEN values[1] ELSE <<>>

bodyOf(values) == SubSeq(values, 2, Len(values))

\* updateRows, lines 354-357: the matching data rows, in order (1 is the
\* first data row: index 0 of the code)
matchingIndices(rows, where) ==
    SelectSeq([i \in 1..Len(rows) |-> i], LAMBDA i : Predicate(where, rows[i]))

\* updateRows, lines 364-366
AllMatches(matching, updateAll) == matching

targetIndices(matching, updateAll) ==
    IF updateAll THEN matching ELSE SubSeq(matching, 1, 1)

\* updateRows, lines 375-379
RECURSIVE cellsFrom(_, _, _)
cellsFrom(headers, existingRow, i) ==
    IF i > Len(headers) THEN <<>>
    ELSE <<OrEmpty(Cell(existingRow, ToStr(headers[i])))>>
         \o cellsFrom(headers, existingRow, i + 1)

existingCellsBlank(headers, existingRow) ==
    cellsFrom(headers, <<>>, 1)

existingCells(headers, existingRow) == cellsFrom(headers, existingRow, 1)

\* updateRows, lines 383-391: the entries applied one after the other
RECURSIVE ApplyPatch(_, _, _, _)
ApplyPatch(headers, cells, data, i) ==
    IF i > Len(data) THEN [cells |-> cells, hasChanges |-> FALSE]
    ELSE LET hi == HeaderIndex(headers, data[i].key)
             hit == hi > 0 /\ ToStr(cells[hi]) # ToStr(data[i].value)
             rest == ApplyPatch(headers,
                                IF hit THEN [cells EXCEPT ![hi] = data[i].value]
                                ELSE cells,
                                data, i + 1)
         IN  [cells |-> rest.cells, hasChanges |-> hit \/ rest.hasChanges]

\* updateRows, lines 371-403: one request per target row that changes; row is
\* the sheet row (index + 2 in the code, where the first data row is index 0)
RECURSIVE RequestsFor(_, _, _, _, _)
RequestsFor(headers, rows, data, targets, i) ==
    IF i > Len(targets) THEN <<>>
    ELSE LET ri == targets[i]
             upd == ApplyPatch(headers, existingCells(headers, rows[ri]), data, 1)
         IN  (IF upd.hasChanges
              THEN <<[row |-> ri + 1, values |-> upd.cells]>>
              ELSE <<>>)
             \o RequestsFor(headers, rows, data, targets, i + 1)

\* updateRows, lines 347-403, on a non-empty fresh read
batchRequests(values, where, data, updateAll) ==
    LET headers == headersOf(values)
        rows == normalizeRows(headers, bodyOf(values))
        matching == matchingIndices(rows, where)
    IN  IF Len(matching) > 0
        THEN RequestsFor(headers, rows, data,
                         targetIndices(matching, updateAll), 1)
        ELSE <<>>

\* The number of data rows of the fresh read the where-tree matches
matchCount(values, where) ==
    Len(matchingIndices(normalizeRows(headersOf(values), bodyOf(values)), where))

\* appendRow, lines 432-438: the row aligned to the headers, and its position
RECURSIVE alignedRow(_, _, _)
alignedRow(headers, data, i) ==
    IF i > Len(headers) THEN <<>>
    ELSE <<OrEmpty(DataGet(data, ToStr(headers[i])))>>
         \o alignedRow(headers, data, i + 1)

appendRequestOnLastRow(values, data) ==
    [row |-> Len(values),
     values |-> alignedRow(headersOf(values), data, 1)]

appendRequest(values, data) ==
    [row |-> Len(values) + 1,
     values |-> alignedRow(headersOf(values), data, 1)]

\* The backend applies values.batchUpdate: each range is one whole row
RECURSIVE ApplyBatch(_, _)
ApplyBatch(grid, batch) ==
    IF batch = <<>> THEN grid
    ELSE LET rq == batch[1]
             padded == grid \o [i \in 1..(rq.row - Len(grid)) |-> <<>>]
             old == padded[rq.row]
             new == rq.values \o SubSeq(old, Len(rq.values) + 1, Len(old))
         IN  ApplyBatch([padded EXCEPT ![rq.row] = new], Tail(batch))

\* The backend applies values.append: the row goes after the last row
ApplyAppend(grid, rq) == Append(grid, rq.values)

\* ------------------------------------------------------------ backend data
\* The sheets used while exercising the cache: a header row and data rows.
Headers == <<S("id"), S("name")>>
SheetA == <<Headers, <<N(1), S("x")>> >>
SheetB == <<Headers, <<N(1), S("y")>> >>

\* The sheets a write request may find: no row at all, a header alone, and
\* data rows of which some lack their last cell
InitSheets ==
    { <<>>,
      <<Headers>>,
      <<Headers, <<N(1), S("x")>>, <<N(2), S("y")>>, <<N(1)>> >> }

\* The where-trees of the requests
Wheres ==
    { NoWhere,
      Where(<<Cond("id", "eq", N(1))>>, <<>>),
      Where(<<Cond("id", "eq", N(2))>>, <<Cond("name", "eq", S("x"))>>) }

\* The patches of the requests (validateData: an object with a key)
Patches ==
    { <<DataEntry("other", S("q")), DataEntry("name", S("x"))>>,
      <<DataEntry("id", S("1")), DataEntry("name", S("z"))>> }

\* The data of the rows to create: the patches, and a row with a null
RowData ==
    Patches \cup { <<DataEntry("name", Null), DataEntry("id", N(2))>> }

\* ------------------------------------------------------------------ callers
\* No call of a pure function is being followed.  (The requests of the
\* service compare no two strings of digits, so that the engine's reading of
\* them plays no part there.)
NoEval == [fn |-> "none", done |-> TRUE]

\* No row is being appended
NoAppend == [row |-> 0, values |-> <<>>]

NoReq ==
    [where |-> NoWhere, data |-> <<>>, updateAll |-> FALSE, upsert |-> FALSE,
     read |-> FALSE, values |-> NoRows, matched |-> 0, batch |-> <<>>,
     updated |-> 0, appended |-> 0, writes |-> 0, appends |-> 0,
     appendRow |-> FALSE, append |-> NoAppend]

Caller(p, op, k, useCache, r) ==
    [pc |-> IF r.src = "cache" THEN "done" ELSE "wait",
     op |-> op, key |-> k, useCache |-> useCache, at |-> now,
     src |-> r.src, awaiting |-> r.awaiting,
     result |-> IF r.src = "cache" THEN RowsResult(r.rows) ELSE NoResult,
     stale |-> r.stale]

OkResult == [st |-> "ok", rows |-> NoRows]

\* The state after the reactions of fetch f's promise: .then stores the entry
\* (success, useCache), .finally deregisters, and the fetch is over
AfterThenStoresFailure(f) == ThenStore(readCache, fetches[f], fetches[f].rows)

AfterThen(f) ==
    IF fetches[f].ok
    THEN ThenStore(readCache, fetches[f], fetches[f].rows)
    ELSE readCache

AfterFinally(f) == FinallyDeregister(inflightReads, fetches[f])

AfterFetch(f) == [fetches EXCEPT ![f] = NoFetch]

EvictedBy(f) ==
    IF fetches[f].ok /\ fetches[f].useCache
    THEN Evictions(PruneExpired(readCache, fetches[f].at))
    ELSE <<>>

\* readValues(spreadsheetId, range, useCache) called by a reader (readSheet
\* with useCache = true, warmup with useCache = false)
ReadValues(p, k, useCache) ==
    /\ proc[p].pc = "idle"
    /\ LET r == readValues(readCache, inflightReads, fetches, p, k, useCache, now)
       IN  /\ readCache' = r.cache
           /\ inflightReads' = r.inflight
           /\ fetches' = r.fetches
           /\ proc' = [proc EXCEPT ![p] = Caller(p, "read", k, useCache, r)]
    /\ lastEvicted' = <<>>
    /\ UNCHANGED evalVars
    /\ UNCHANGED <<now, sheet, req, edits, writeCalls>>

\* readValues, lines 126-129: a range that is blank after trim() is refused
\* before any cache key exists
ReadBlankRange(p, useCache) ==
    /\ proc[p].pc = "idle"
    /\ proc' = [proc EXCEPT ![p] =
           [IdleProc EXCEPT !.pc = "done", !.op = "read",
                            !.useCache = useCache, !.at = now,
                            !.result = ErrorResult]]
    /\ lastEvicted' = <<>>
    /\ UNCHANGED evalVars
    /\ UNCHANGED <<now, readCache, inflightReads, fetches, sheet, req, edits, writeCalls>>

\* The backend answers values.get: it reads the sheet now, or fails
BackendServe(f, ok) ==
    /\ fetches[f].st = "sent"
    /\ fetches' = [fetches EXCEPT ![f] =
           [fetches[f] EXCEPT !.st = "served", !.ok = ok,
                     !.rows = IF ok THEN sheet[fetches[f].key] ELSE NoRows]]
    /\ lastEvicted' = <<>>
    /\ UNCHANGED evalVars
    /\ UNCHANGED <<now, readCache, inflightReads, sheet, proc, req, edits, writeCalls>>

\* The response of a reader's fetch arrives: .then, .finally, and every caller
\* awaiting the promise receives its value or its error
SettleRead(f) ==
    /\ fetches[f].st = "served"
    /\ proc[f].op = "read"
    /\ readCache' = AfterThen(f)
    /\ inflightReads' = AfterFinally(f)
    /\ fetches' = AfterFetch(f)
    /\ lastEvicted' = EvictedBy(f)
    /\ UNCHANGED evalVars
    /\ proc' = [q \in Procs |->
           IF proc[q].pc = "wait" /\ proc[q].awaiting = f
           THEN [proc[q] EXCEPT !.pc = "done", !.awaiting = 0,
                                !.result = FetchResult(fetches[f])]
           ELSE proc[q]]
    /\ UNCHANGED <<now, sheet, req, edits, writeCalls>>

\* controllers updateSheet, lines 262-276, into updateRows, line 341: the
\* fresh read is requested
UpdateSheet(p, k, where, data, updateAll, upsert) ==
    /\ proc[p].pc = "idle"
    /\ LET r == readValues(readCache, inflightReads, fetches, p, k, FALSE, now)
       IN  /\ readCache' = r.cache
           /\ inflightReads' = r.inflight
           /\ fetches' = r.fetches
           /\ proc' = [proc EXCEPT ![p] = Caller(p, "update", k, FALSE, r)]
    /\ req' = [req EXCEPT ![p] =
           [NoReq EXCEPT !.where = where, !.data = data,
                         !.updateAll = updateAll, !.upsert = upsert]]
    /\ lastEvicted' = <<>>
    /\ UNCHANGED evalVars
    /\ writeCalls < MaxWriteCalls
    /\ writeCalls' = writeCalls + 1
    /\ UNCHANGED <<now, sheet, edits>>

\* updateSheet, line 279: the controller appends when nothing was updated
CallsAppend(rq, updated) == updated = 0 /\ rq.upsert

\* updateRows, line 343, and appendRow, line 428
RefusesUnreadable(values) == FALSE

RefusesEmpty(values) == Len(values) = 0

\* updateRows, lines 341-418, from the arrival of the fresh read: the read
\* failed or is empty (the call throws), or nothing is to be written (it
\* returns updated = 0, and updateSheet may go on into appendRow, line 426),
\* or the batched write is requested
SettleUpdateRead(f) ==
    /\ fetches[f].st = "served"
    /\ proc[f].op = "update"
    /\ proc[f].pc = "wait"
    /\ lastEvicted' = EvictedBy(f)
    /\ UNCHANGED evalVars
    /\ UNCHANGED <<now, sheet, edits, writeCalls>>
    /\ LET values == fetches[f].rows
           got == [req[f] EXCEPT !.read = fetches[f].ok, !.values = values]
       IN  IF ~fetches[f].ok \/ RefusesEmpty(values)
           THEN /\ readCache' = AfterThen(f)
                /\ inflightReads' = AfterFinally(f)
                /\ fetches' = AfterFetch(f)
                /\ req' = [req EXCEPT ![f] = got]
                /\ proc' = [proc EXCEPT ![f] =
                       [@ EXCEPT !.pc = "done", !.awaiting = 0,
                                 !.result = ErrorResult]]
           ELSE LET batch == batchRequests(values, req[f].where,
                                           req[f].data, req[f].updateAll)
                    sel == [got EXCEPT !.matched = matchCount(values, req[f].where),
                                       !.batch = batch]
                IN  IF batch # <<>>
                    THEN /\ readCache' = AfterThen(f)
                         /\ inflightReads' = AfterFinally(f)
                         /\ fetches' = AfterFetch(f)
                         /\ req' = [req EXCEPT ![f] = sel]
                         /\ proc' = [proc EXCEPT ![f] =
                                [@ EXCEPT !.pc = "batch", !.awaiting = 0]]
                    ELSE IF CallsAppend(sel, 0)
                    THEN LET r == readValues(AfterThen(f), AfterFinally(f),
                                             AfterFetch(f), f, proc[f].key,
                                             FALSE, now)
                         IN  /\ readCache' = r.cache
                             /\ inflightReads' = r.inflight
                             /\ fetches' = r.fetches
                             /\ req' = [req EXCEPT ![f] =
                                    [sel EXCEPT !.appendRow = TRUE, !.read = FALSE]]
                             /\ proc' = [proc EXCEPT ![f] =
                                    Caller(f, "append", proc[f].key, FALSE, r)]
                    ELSE /\ readCache' = AfterThen(f)
                         /\ inflightReads' = AfterFinally(f)
                         /\ fetches' = AfterFetch(f)
                         /\ req' = [req EXCEPT ![f] = sel]
                         /\ proc' = [proc EXCEPT ![f] =
                                [@ EXCEPT !.pc = "done", !.awaiting = 0,
                                          !.result = OkResult]]

\* updateRows, lines 406-418: the backend applies the batched write, or
\* fails; updateSheet returns (updated > 0, so it does not append)
BackendBatchUpdate(p, ok) ==
    /\ proc[p].pc = "batch"
    /\ sheet' = IF ok
                THEN [sheet EXCEPT ![proc[p].key] = ApplyBatch(@, req[p].batch)]
                ELSE sheet
    /\ req' = [req EXCEPT ![p] =
           [@ EXCEPT !.writes = @ + 1,
                     !.updated = IF ok THEN Len(req[p].batch) ELSE 0]]
    /\ proc' = [proc EXCEPT ![p] =
           [@ EXCEPT !.pc = "done",
                     !.result = IF ok THEN OkResult ELSE ErrorResult]]
    /\ lastEvicted' = <<>>
    /\ UNCHANGED evalVars
    /\ UNCHANGED <<now, readCache, inflightReads, fetches, edits, writeCalls>>

\* controllers createRow, lines 306-314, into appendRow, line 426
CreateRow(p, k, data) ==
    /\ proc[p].pc = "idle"
    /\ LET r == readValues(readCache, inflightReads, fetches, p, k, FALSE, now)
       IN  /\ readCache' = r.cache
           /\ inflightReads' = r.inflight
           /\ fetches' = r.fetches
           /\ proc' = [proc EXCEPT ![p] = Caller(p, "append", k, FALSE, r)]
    /\ req' = [req EXCEPT ![p] =
           [NoReq EXCEPT !.data = data, !.appendRow = TRUE]]
    /\ lastEvicted' = <<>>
    /\ UNCHANGED evalVars
    /\ writeCalls < MaxWriteCalls
    /\ writeCalls' = writeCalls + 1
    /\ UNCHANGED <<now, sheet, edits>>

\* appendRow, lines 426-449, from the arrival of the fresh read: the read
\* failed or is empty (the call throws), or the append is requested
SettleAppendRead(f) ==
    /\ fetches[f].st = "served"
    /\ proc[f].op = "append"
    /\ proc[f].pc = "wait"
    /\ readCache' = AfterThen(f)
    /\ inflightReads' = AfterFinally(f)
    /\ fetches' = AfterFetch(f)
    /\ lastEvicted' = EvictedBy(f)
    /\ UNCHANGED evalVars
    /\ req' = [req EXCEPT ![f] =
           [@ EXCEPT !.read = fetches[f].ok, !.values = fetches[f].rows,
                     !.append = IF ~fetches[f].ok \/ RefusesEmpty(fetches[f].rows)
                                THEN NoAppend
                                ELSE appendRequest(fetches[f].rows, req[f].data)]]
    /\ proc' = [proc EXCEPT ![f] =
           IF ~fetches[f].ok \/ RefusesEmpty(fetches[f].rows)
           THEN [@ EXCEPT !.pc = "done", !.awaiting = 0, !.result = ErrorResult]
           ELSE [@ EXCEPT !.pc = "append", !.awaiting = 0]]
    /\ UNCHANGED <<now, sheet, edits, writeCalls>>

\* appendRow, lines 441-451: the backend appends the row, or fails
BackendAppend(p, ok) ==
    /\ proc[p].pc = "append"
    /\ sheet' = IF ok
                THEN [sheet EXCEPT ![proc[p].key] =
                         ApplyAppend(@, req[p].append)]
                ELSE sheet
    /\ req' = [req EXCEPT ![p] =
           [@ EXCEPT !.appends = @ + 1,
                     !.appended = IF ok THEN 1 ELSE 0]]
    /\ proc' = [proc EXCEPT ![p] =
           [@ EXCEPT !.pc = "done",
                     !.result = IF ok THEN OkResult ELSE ErrorResult]]
    /\ lastEvicted' = <<>>
    /\ UNCHANGED evalVars
    /\ UNCHANGED <<now, readCache, inflightReads, fetches, edits, writeCalls>>

\* The caller takes its result; it may call again
Return(p) ==
    /\ proc[p].pc = "done"
    /\ proc' = [proc EXCEPT ![p] = IdleProc]
    /\ req' = [req EXCEPT ![p] = NoReq]
    /\ lastEvicted' = <<>>
    /\ UNCHANGED evalVars
    /\ UNCHANGED <<now, readCache, inflightReads, fetches, sheet, edits, writeCalls>>

\* Date.now() advances
Tick ==
    /\ now < MaxTime
    /\ now' = now + 1
    /\ lastEvicted' = <<>>
    /\ UNCHANGED evalVars
    /\ UNCHANGED <<readCache, inflightReads, fetches, sheet, proc, req, edits, writeCalls>>

\* Someone edits the sheet outside the service
ExternalEdit(k) ==
    /\ edits < MaxEdits
    /\ edits' = edits + 1
    /\ sheet' = [sheet EXCEPT ![k] = IF @ = SheetA THEN SheetB ELSE SheetA]
    /\ lastEvicted' = <<>>
    /\ UNCHANGED evalVars
    /\ UNCHANGED <<now, readCache, inflightReads, fetches, proc, req, writeCalls>>

InitService ==
    /\ now = 0
    /\ readCache = <<>>
    /\ inflightReads = [k \in AllKeys |-> 0]
    /\ fetches = [p \in Procs |-> NoFetch]
    /\ proc = [p \in Procs |-> IdleProc]
    /\ req = [p \in Procs |-> NoReq]
    /\ lastEvicted = <<>>
    /\ edits = 0
    /\ writeCalls = 0
    /\ engine = "strict"
    /\ eval = NoEval

Init ==
    /\ InitService
    /\ sheet = [k \in AllKeys |-> SheetA]

Next ==
    \/ \E p \in Procs, k \in Keys, useCache \in BOOLEAN : ReadValues(p, k, useCache)
    \/ \E p \in Procs, useCache \in BOOLEAN : ReadBlankRange(p, useCache)
    \/ \E f \in Procs, ok \in BOOLEAN : BackendServe(f, ok)
    \/ \E f \in Procs : SettleRead(f)
    \/ \E p \in Procs : Return(p)
    \/ \E k \in Keys : ExternalEdit(k)
    \/ Tick

Spec == Init /\ [][Next]_vars

\* Every backend request is answered and the event loop runs the reactions
\* of every settled promise
FetchesSettle ==
    \A f \in Procs :
        /\ WF_vars(\E ok \in BOOLEAN : BackendServe(f, ok))
        /\ WF_vars(SettleRead(f))

\* The reads of Spec on a sheet nobody edits
NextLive ==
    \/ \E p \in Procs, k \in Keys, useCache \in BOOLEAN : ReadValues(p, k, useCache)
    \/ \E f \in Procs, ok \in BOOLEAN : BackendServe(f, ok)
    \/ \E f \in Procs : SettleRead(f)
    \/ \E p \in Procs : Return(p)
    \/ Tick

SpecLive == Init /\ [][NextLive]_vars /\ FetchesSettle

\* Cached reads alone, over enough keys to fill the cache beyond its capacity
NextLru ==
    \/ \E p \in Procs, k \in LruKeys : ReadValues(p, k, TRUE)
    \/ \E f \in Procs, ok \in BOOLEAN : BackendServe(f, ok)
    \/ \E f \in Procs : SettleRead(f)
    \/ \E p \in Procs : Return(p)
    \/ Tick

SpecLru == Init /\ [][NextLru]_vars

\* The write coordinator on one sheet, beside readers of the same sheet
WriteKey == 1

InitWrite ==
    /\ InitService
    /\ \E g \in InitSheets : sheet = [k \in AllKeys |-> g]

NextWrite ==
    \/ \E p \in Procs, useCache \in BOOLEAN : ReadValues(p, WriteKey, useCache)
    \/ \E p \in Writers, w \in Wheres, d \in Patches, updateAll, upsert \in BOOLEAN :
           UpdateSheet(p, WriteKey, w, d, updateAll, upsert)
    \/ \E p \in Writers, d \in RowData : CreateRow(p, WriteKey, d)
    \/ \E f \in Procs, ok \in BOOLEAN : BackendServe(f, ok)
    \/ \E f \in Procs : SettleRead(f)
    \/ \E f \in Procs : SettleUpdateRead(f)
    \/ \E p \in Procs, ok \in BOOLEAN : BackendBatchUpdate(p, ok)
    \/ \E f \in Procs : SettleAppendRead(f)
    \/ \E p \in Procs, ok \in BOOLEAN : BackendAppend(p, ok)
    \/ \E p \in Procs : Return(p)

SpecWrite == InitWrite /\ [][NextWrite]_vars

\* Two updateRows calls on one sheet, interleaved at their backend calls
NextRace ==
    \/ \E p \in Procs, w \in Wheres, d \in Patches, updateAll \in BOOLEAN :
           UpdateSheet(p, WriteKey, w, d, updateAll, FALSE)
    \/ \E f \in Procs, ok \in BOOLEAN : BackendServe(f, ok)
    \/ \E f \in Procs : SettleUpdateRead(f)
    \/ \E p \in Procs, ok \in BOOLEAN : BackendBatchUpdate(p, ok)
    \/ \E p \in Procs : Return(p)

SpecRace == InitWrite /\ [][NextRace]_vars

\* One client sends the same upsert request (eval) again after the answer
\* to the first, to a backend that answers every call
UpsertRequest(where, data, updateAll) ==
    [fn |-> "upsert", done |-> FALSE, where |-> where, data |-> data,
     updateAll |-> updateAll]

InitUpsert ==
    /\ now = 0
    /\ readCache = <<>>
    /\ inflightReads = [k \in AllKeys |-> 0]
    /\ fetches = [p \in Procs |-> NoFetch]
    /\ proc = [p \in Procs |-> IdleProc]
    /\ req = [p \in Procs |-> NoReq]
    /\ lastEvicted = <<>>
    /\ edits = 0
    /\ writeCalls = 0
    /\ engine = "strict"
    /\ \E g \in InitSheets : sheet = [k \in AllKeys |-> g]
    /\ \E w \in Wheres, d \in Patches, updateAll \in BOOLEAN :
           eval = UpsertRequest(w, d, updateAll)

NextUpsert ==
    \/ \E p \in Writers :
           UpdateSheet(p, WriteKey, eval.where, eval.data, eval.updateAll, TRUE)
    \/ \E f \in Writers : BackendServe(f, TRUE)
    \/ \E f \in Writers : SettleUpdateRead(f)
    \/ \E p \in Writers : BackendBatchUpdate(p, TRUE)
    \/ \E f \in Writers : SettleAppendRead(f)
    \/ \E p \in Writers : BackendAppend(p, TRUE)
    \/ \E p \in Writers : Return(p)

SpecUpsert == InitUpsert /\ [][NextUpsert]_vars

\* --------------------------------------------------- the filters, call by call
\* The values compared
Vals ==
    { Undef, Null, N(0), N(1), N(2), B(TRUE), B(FALSE),
      S(""), S("0"), S("1"), S("2"), S("x"), S("y"), S("true"), S("false"),
      S("undefined"), S("null"), S("2024"), S("2024-01"), S("2024-06") }

\* The operators compare is called with
CompareOps == {"eq", "ne", "gt", "gte", "lt", "lte", "bogus"}

\* The cells and bounds between is called with
BetweenVals ==
    { Undef, S(""), N(0), N(1), N(2), B(TRUE), S("1"), S("x"),
      S("2024"), S("2024-01"), S("2024-06") }

\* The rows the conditions are matched against
FilterRows ==
    { [id |-> N(1), name |-> S("x")],
      [id |-> N(2), name |-> S("")],
      [id |-> S("2024-06"), name |-> S("true")] }

\* The conditions matchCondition is called with
CondFields == {"", "id", "name", "other"}

CondOperators ==
    { NoOperator, "eq", "EQ", "ne", "gt", "gte", "lt", "lte", "like", "is_null",
      "is_not_null", "between", "in", "IN", "not_in", "bogus" }

CondValue == {Undef, N(1), N(2), S("x"), S("2024"), L(3), L(6)}

CondValuesKey == {Undef, L(1), L(3), S("x")}

Conds ==
    {NotACond} \cup
    { CondValues(f, op, v, vs) :
        f \in CondFields, op \in CondOperators, v \in CondValue,
        vs \in CondValuesKey }

\* The conditions of the where-trees: none of them throws
TreeConds ==
    { Cond("id", "eq", N(1)), Cond("name", "eq", S("x")),
      Cond("id", "gt", N(1)), NotACond }

Groups ==
    {NoGroup, CondList(<<>>)}
    \cup { OneCond(c) : c \in TreeConds }
    \cup { CondList(<<c>>) : c \in TreeConds }
    \cup { CondList(<<c, d>>) : c \in TreeConds, d \in TreeConds }

\* The where-trees: nothing, a falsy or a truthy scalar, an object with its
\* groups, and one condition
Trees ==
    { NoTree,
      Tree("falsy", NoGroup, NoGroup, NotACond),
      Tree("scalar", NoGroup, NoGroup, NotACond) }
    \cup { Tree("object", a, o, NotACond) : a \in Groups, o \in Groups }
    \cup { Tree("object", NoGroup, NoGroup, c) : c \in TreeConds \ {NotACond} }

Payloads == { Payload(w, t) : w \in BOOLEAN, t \in Trees }

\* The header rows and the data rows normalizeRows is called with
HeaderRows ==
    { <<>>, <<S("id")>>, <<S("id"), S("name")>>,
      <<S("name"), S("id"), S("other")>>, <<S("id"), S("id")>> }

RawRow == { <<>>, <<N(1)>>, <<N(1), S("x")>>, <<N(2), S("y"), S("z")>> }

RawRows ==
    {<<>>} \cup { <<r>> : r \in RawRow } \cup { <<r, q>> : r \in RawRow, q \in RawRow }

\* A call about to be made
Calls ==
    { [fn |-> "compare", lhs |-> a, rhs |-> b, op |-> op, done |-> FALSE,
       out |-> FALSE] : a \in Vals, b \in Vals, op \in CompareOps }
    \cup
    { [fn |-> "between", cell |-> c, low |-> l, high |-> h, done |-> FALSE,
       out |-> FALSE] : c \in BetweenVals, l \in BetweenVals, h \in BetweenVals }
    \cup
    { [fn |-> "matchCondition", row |-> r, cond |-> c, done |-> FALSE,
       throws |-> FALSE, out |-> FALSE] : r \in FilterRows, c \in Conds }
    \cup
    { [fn |-> "buildPredicate", payload |-> pl, row |-> r, done |-> FALSE,
       out |-> FALSE] : pl \in Payloads, r \in FilterRows }
    \cup
    { [fn |-> "normalizeRows", headers |-> h, rawRows |-> rr, done |-> FALSE,
       out |-> <<>>] : h \in HeaderRows, rr \in RawRows }

\* compare(lhs, rhs, op) returns
Compare ==
    /\ eval.fn = "compare" /\ ~eval.done
    /\ eval' = [eval EXCEPT !.done = TRUE,
                            !.out = compare(eval.lhs, eval.rhs, eval.op)]
    /\ UNCHANGED <<svcVars, engine>>

\* between(cell, low, high) returns
Between ==
    /\ eval.fn = "between" /\ ~eval.done
    /\ eval' = [eval EXCEPT !.done = TRUE,
                            !.out = between(eval.cell, eval.low, eval.high)]
    /\ UNCHANGED <<svcVars, engine>>

\* matchCondition(row, cond) returns or throws
MatchCondition ==
    /\ eval.fn = "matchCondition" /\ ~eval.done
    /\ eval' = [eval EXCEPT
                    !.done = TRUE,
                    !.throws = matchThrows(eval.row, eval.cond),
                    !.out = IF matchThrows(eval.row, eval.cond) THEN FALSE
                            ELSE matchCondition(eval.row, eval.cond)]
    /\ UNCHANGED <<svcVars, engine>>

\* buildPredicate(payload)(row) returns
BuildPredicate ==
    /\ eval.fn = "buildPredicate" /\ ~eval.done
    /\ eval' = [eval EXCEPT !.done = TRUE,
                            !.out = compiled(eval.payload, eval.row)]
    /\ UNCHANGED <<svcVars, engine>>

\* normalizeRows(headers, rawRows) returns
NormalizeRows ==
    /\ eval.fn = "normalizeRows" /\ ~eval.done
    /\ eval' = [eval EXCEPT !.done = TRUE,
                            !.out = normalizeRows(eval.headers, eval.rawRows)]
    /\ UNCHANGED <<svcVars, engine>>

InitFilter ==
    /\ now = 0
    /\ readCache = <<>>
    /\ inflightReads = [k \in AllKeys |-> 0]
    /\ fetches = [p \in Procs |-> NoFetch]
    /\ proc = [p \in Procs |-> IdleProc]
    /\ req = [p \in Procs |-> NoReq]
    /\ lastEvicted = <<>>
    /\ edits = 0
    /\ writeCalls = 0
    /\ sheet = [k \in AllKeys |-> <<>>]
    /\ engine \in {"strict", "legacy"}
    /\ eval \in Calls

NextFilter ==
    \/ Compare
    \/ Between
    \/ MatchCondition
    \/ BuildPredicate
    \/ NormalizeRows

SpecFilter == InitFilter /\ [][NextFilter]_vars

\* ================================================================== claims

\* ---- C1 (Spec) ----------------------------------------------------------
\* The fetches started by useCache=true calls that have not settled, per key
CachedFetches(k) ==
    {f \in Procs : fetches[f].st # "none" /\ fetches[f].useCache /\ fetches[f].key = k}

SingleFlight == \A k \in AllKeys : Cardinality(CachedFetches(k)) <= 1

\* When a fetch settles, every caller awaiting its promise completes with the
\* outcome of the caller that started it: the rows the backend served, or
\* the failure.
SameOutcome ==
    \A f \in Procs :
        (fetches[f].st = "served" /\ fetches'[f].st = "none" /\ proc[f].op = "read") =>
            \A q \in Procs :
                (proc[q].pc = "wait" /\ proc[q].awaiting = f) =>
                    /\ proc'[q].pc = "done"
                    /\ proc'[q].result = proc'[f].result
                    /\ proc'[q].result =
                           IF fetches[f].ok THEN RowsResult(fetches[f].rows)
                           ELSE ErrorResult

\* C1: in every interleaving of useCache=true reads of a key, at most one
\* backend fetch started by them is outstanding for the key at any time, and
\* every caller coalesced onto a fetch receives the same rows, or the same
\* failure, as the caller that started it.
C1_SingleFlight == []SingleFlight /\ [][SameOutcome]_vars

\* A caller is waiting on a fetch that another caller started.
C1_Witness ==
    \E q \in Procs :
        /\ proc[q].pc = "wait"
        /\ proc[q].useCache
        /\ proc[q].awaiting \in Procs \ {q}
        /\ fetches[proc[q].awaiting].key = proc[q].key

\* ---- C2 (Spec) ----------------------------------------------------------
\* C2: once an uncached read of a key has been issued, no cached read issued
\* later for the key returns rows that the backend served before that
\* uncached read was issued.  (stale: the rows the caller was given, from an
\* entry or from a pending fetch, were already served when a later uncached
\* read of the key was issued, and the caller came after it.)
C2_NoRowsFromBeforeUncachedRead ==
    \A p \in Procs :
        (proc[p].pc = "done" /\ proc[p].useCache /\ proc[p].result.st = "rows")
            => ~proc[p].stale

\* ---- C3 (SpecLru) -------------------------------------------------------
\* C3: the cache never holds more than CACHE_MAX_ENTRIES entries.
C3_CacheWithinCapacity == Len(readCache) <= CACHE_MAX_ENTRIES

\* ---- C4 (SpecLru) -------------------------------------------------------
\* C4: whenever capacity enforcement evicts an entry, that entry is the least
\* recently accessed one in the cache (an access is the insertion of the
\* entry or a hit on it).
C4_EvictsLeastRecentlyUsed ==
    \A i \in 1..Len(lastEvicted) : lastEvicted[i].acc = lastEvicted[i].minAcc

\* An entry was just evicted for capacity although an entry inserted before
\* it (an older timestamp) stays: the one that stays was used since.
C4_Witness ==
    /\ lastEvicted # <<>>
    /\ \E i \in 1..Len(readCache) :
           readCache[i].timestamp < lastEvicted[1].timestamp

\* ---- C5 (Spec) ----------------------------------------------------------
\* C5: a useCache=true read issued at time T is answered from the cache, with
\* no backend fetch, if and only if an entry of the key exists with
\* T - timestamp <= CACHE_TTL; otherwise an entry of the key, if any, is
\* removed and the result comes from a backend fetch, a new one or the one in
\* flight for the key.
C5_Step ==
    \A p \in Procs, k \in AllKeys :
        (/\ proc[p].pc = "idle"
         /\ proc'[p].pc # "idle"
         /\ proc'[p].op = "read"
         /\ proc'[p].useCache
         /\ proc'[p].key = k) =>
            IF \E i \in 1..Len(readCache) :
                   readCache[i].key = k /\ now - readCache[i].timestamp <= CACHE_TTL
            THEN /\ proc'[p].src = "cache"
                 /\ proc'[p].pc = "done"
                 /\ \E i \in 1..Len(readCache) :
                        /\ readCache[i].key = k
                        /\ proc'[p].result = RowsResult(readCache[i].data)
                 /\ fetches' = fetches
            ELSE /\ proc'[p].src = "fetch"
                 /\ proc'[p].pc = "wait"
                 /\ \A i \in 1..Len(readCache') : readCache'[i].key # k
                 /\ proc'[p].awaiting \in Procs
                 /\ fetches'[proc'[p].awaiting].st # "none"
                 /\ fetches'[proc'[p].awaiting].key = k
                 /\ \/ proc'[p].awaiting = p /\ fetches[p].st = "none"
                    \/ proc'[p].awaiting = inflightReads[k] /\ fetches' = fetches

C5_FreshnessDecidesHit == [][C5_Step]_vars

\* A hit on an entry whose age is exactly CACHE_TTL.
C5_Witness ==
    \E p \in Procs :
        /\ proc[p].pc = "done"
        /\ proc[p].src = "cache"
        /\ \E i \in 1..Len(readCache) :
               /\ readCache[i].key = proc[p].key
               /\ proc[p].at - readCache[i].timestamp = CACHE_TTL

\* ---- C6 (Spec) ----------------------------------------------------------
\* C6: a key is registered in flight exactly while the fetch that a
\* useCache=true miss started for it has not settled, and the registration
\* names that fetch; so with no fetch outstanding the registry is empty.
C6_InflightWhileFetching ==
    \A k \in AllKeys :
        /\ inflightReads[k] # 0 <=> CachedFetches(k) # {}
        /\ inflightReads[k] # 0 => CachedFetches(k) = {inflightReads[k]}

\* A cached fetch has failed and its key is no longer registered.
C6_Witness ==
    \E p \in Procs :
        /\ proc[p].pc = "done"
        /\ proc[p].useCache
        /\ proc[p].src = "fetch"
        /\ proc[p].result = ErrorResult
        /\ inflightReads[proc[p].key] = 0

\* ---- C7 (SpecWrite) ------------------------------------------------------
\* updateRows has returned to updateSheet without throwing
UpdateRowsReturned(p) ==
    \/ proc[p].op = "append" /\ req[p].upsert
    \/ proc[p].op = "update" /\ proc[p].pc = "done" /\ proc[p].result = OkResult

\* C7: in the upsert flow appendRow is called if and only if no row of the
\* freshly read dataset matches the where predicate; when a row matches, no
\* row is appended.
C7_AppendIffNoMatch ==
    \A p \in Procs :
        (req[p].upsert /\ UpdateRowsReturned(p)) =>
            (req[p].appendRow <=> req[p].matched = 0)

\* ---- C8 (SpecWrite) ------------------------------------------------------
\* The data rows of p's fresh read, by the records the where-tree is tried on
RowsRead(p) == normalizeRows(headersOf(req[p].values), bodyOf(req[p].values))

Matching(p) ==
    {i \in 1..Len(RowsRead(p)) : Predicate(req[p].where, RowsRead(p)[i])}

\* Data row i is a target: it matches, and it is the first match unless
\* updateAll
IsTarget(p, i) ==
    /\ i \in Matching(p)
    /\ req[p].updateAll \/ \A j \in Matching(p) : i <= j

\* Some patch column that the header has changes the string of its cell
PatchChanges(p, i) ==
    \E e \in 1..Len(req[p].data), c \in 1..Len(headersOf(req[p].values)) :
        /\ headersOf(req[p].values)[c] = S(req[p].data[e].key)
        /\ ToStr(RowsRead(p)[i][req[p].data[e].key]) # ToStr(req[p].data[e].value)

\* C8: updateRows schedules exactly the target rows (the first matching row,
\* or every matching row with updateAll) that a patch column present in the
\* header changes, each once and in row order; it issues at most one batched
\* write, none when no row is scheduled, and returns as updated the number of
\* rows written.
C8_TargetsAndCount ==
    \A p \in Procs :
        (proc[p].op = "update" /\ req[p].read /\ req[p].values # <<>>) =>
            /\ \A i \in 1..Len(RowsRead(p)) :
                   (IsTarget(p, i) /\ PatchChanges(p, i))
                       <=> \E b \in 1..Len(req[p].batch) : req[p].batch[b].row = i + 1
            /\ \A b, c \in 1..Len(req[p].batch) :
                   b < c => req[p].batch[b].row < req[p].batch[c].row
            /\ \A b \in 1..Len(req[p].batch) :
                   req[p].batch[b].row - 1 \in 1..Len(RowsRead(p))
            /\ req[p].writes <= 1
            /\ req[p].batch = <<>> => req[p].writes = 0
            /\ (proc[p].pc = "done" /\ proc[p].result = OkResult) =>
                   /\ req[p].updated = Len(req[p].batch)
                   /\ req[p].writes = (IF req[p].batch = <<>> THEN 0 ELSE 1)
                   /\ req[p].appended = 0

\* Two rows match and both would change, updateAll is false, and only the
\* first was written.
C8_Witness ==
    \E p \in Procs :
        /\ proc[p].op = "update"
        /\ proc[p].pc = "done"
        /\ proc[p].result = OkResult
        /\ ~req[p].updateAll
        /\ \E i, j \in Matching(p) : i < j /\ PatchChanges(p, i) /\ PatchChanges(p, j)
        /\ req[p].updated = 1
        /\ req[p].writes = 1

\* ---- C9 (SpecWrite) ------------------------------------------------------
\* C9: updateRows and appendRow fail with an error, and issue no backend
\* write or append call, whenever their fresh read returns zero rows.
C9_EmptyReadFails ==
    \A p \in Procs :
        (proc[p].op \in {"update", "append"} /\ req[p].read /\ req[p].values = <<>>) =>
            /\ proc[p].pc = "done"
            /\ proc[p].result = ErrorResult
            /\ req[p].writes = 0
            /\ req[p].appends = 0

\* An appendRow call has failed on an empty read.
C9_Witness ==
    \E p \in Procs :
        /\ proc[p].op = "append"
        /\ req[p].read
        /\ req[p].values = <<>>
        /\ proc[p].pc = "done"

\* ---- C10 (SpecWrite) -----------------------------------------------------
\* p's position is inside a readValues call with useCache = false
InUncachedRead(p) ==
    /\ proc[p].pc = "wait"
    /\ proc[p].op \in {"update", "append"} \/ ~proc[p].useCache

\* A useCache=false call never gets a cached entry and never joins a pending
\* fetch: it waits for a fetch of its own, which is never registered in
\* flight; every updateRows and appendRow read is such a call; and no entry of
\* the cache was stored by a useCache=false call.
C10_State ==
    /\ \A p \in Procs :
           /\ proc[p].op \in {"update", "append"} => ~proc[p].useCache
           /\ (proc[p].key # 0 /\ ~proc[p].useCache) => proc[p].src = "fetch"
           /\ InUncachedRead(p) =>
                  /\ proc[p].awaiting = p
                  /\ fetches[p].st # "none"
                  /\ ~fetches[p].useCache
                  /\ fetches[p].key = proc[p].key
    /\ \A f \in Procs, k \in AllKeys :
           (fetches[f].st # "none" /\ ~fetches[f].useCache) => inflightReads[k] # f
    /\ \A i \in 1..Len(readCache) : readCache[i].useCache

\* The step in which p enters a useCache=false read sends a new fetch, leaves
\* the registry as it is and adds nothing to the cache; the step in which its
\* response arrives leaves the registry as it is and adds nothing to the
\* cache either.
C10_Step ==
    \A p \in Procs :
        /\ (InUncachedRead(p)' /\ (~InUncachedRead(p) \/ proc'[p].op # proc[p].op)) =>
               /\ fetches'[p].st = "sent"
               /\ inflightReads' = inflightReads
               /\ CacheKeys(readCache') \subseteq CacheKeys(readCache)
        /\ (InUncachedRead(p) /\ fetches[p].st = "served" /\ fetches'[p].st # "served") =>
               /\ inflightReads' = inflightReads
               /\ CacheKeys(readCache') \subseteq CacheKeys(readCache)

\* C10: a readValues call with useCache=false, and so every updateRows and
\* appendRow call, always issues its own backend fetch whatever the cache and
\* in-flight state: it never returns a cached entry, never joins an in-flight
\* fetch, never registers an in-flight entry and never stores its result in
\* the cache.
C10_UncachedBypasses == []C10_State /\ [][C10_Step]_vars

\* updateRows waits for its own fetch while a cached fetch of the same key is
\* registered in flight.
C10_Witness ==
    \E p \in Procs :
        /\ proc[p].op = "update"
        /\ proc[p].pc = "wait"
        /\ fetches[p].st = "sent"
        /\ inflightReads[proc[p].key] \in Procs \ {p}


\* ---- C11 (SpecFilter) ---------------------------------------------------
\* The conditions a group of the request stands for
GroupConds(g) == IF g.shape = "absent" THEN <<>> ELSE g.conds

EveryMatches(row, cs) == \A i \in 1..Len(cs) : matchCondition(row, cs[i])

SomeMatches(row, cs) == \E i \in 1..Len(cs) : matchCondition(row, cs[i])

\* What the combination rule gives for a where-tree and a row
Combined(tree, row) ==
    LET a == GroupConds(tree.and)
        o == GroupConds(tree.or)
    IN  CASE tree.kind # "object" -> TRUE
          [] a = <<>> /\ o = <<>> -> TRUE
          [] a # <<>> /\ o = <<>> -> EveryMatches(row, a)
          [] a = <<>> /\ o # <<>> -> SomeMatches(row, o)
          [] OTHER -> EveryMatches(row, a) \/ SomeMatches(row, o)

BuiltPredicate == eval.fn = "buildPredicate" /\ eval.done

\* C11: for every row, the predicate compiled from a where-tree is true when
\* neither group is present (absent, non-object or empty tree), is "every
\* and-condition matches" when only the and-group is non-empty, is "some
\* or-condition matches" when only the or-group is non-empty, and is the
\* disjunction of the two when both groups are non-empty.
C11_CombinationRule ==
    BuiltPredicate => (eval.out <=> Combined(eval.payload.tree, eval.row))

\* Both groups are non-empty, the and-group fails and the or-group holds
C11_Witness ==
    /\ BuiltPredicate
    /\ eval.payload.tree.kind = "object"
    /\ GroupConds(eval.payload.tree.and) # <<>>
    /\ GroupConds(eval.payload.tree.or) # <<>>
    /\ ~EveryMatches(eval.row, GroupConds(eval.payload.tree.and))
    /\ SomeMatches(eval.row, GroupConds(eval.payload.tree.or))
    /\ eval.out

\* ---- C12 (SpecFilter) ---------------------------------------------------
\* The where-tree is one condition, with no and-group and no or-group
SingleCondition(tree) ==
    /\ tree.kind = "object"
    /\ tree.cond.obj
    /\ tree.and.shape = "absent"
    /\ tree.or.shape = "absent"

\* C12: when the where-tree is a single condition {field, operator, value}
\* with no and/or group, the compiled predicate matches a row if and only if
\* that condition matches the row.
C12_SingleConditionTree ==
    (BuiltPredicate /\ SingleCondition(eval.payload.tree))
        => (eval.out <=> matchCondition(eval.row, eval.payload.tree.cond))


\* ---- C13 (SpecFilter) ---------------------------------------------------
SupportedOperators ==
    { "eq", "ne", "gt", "gte", "lt", "lte", "like", "is_null", "is_not_null",
      "between", "in", "not_in" }

IsPair(v) == v.t = "list" /\ Len(Items(v)) >= 2

\* The malformed conditions: no field, an unsupported operator, a between
\* whose payload is no pair, an in / not_in whose values is no list or that
\* has no value at all
Malformed(cond) ==
    /\ cond.obj
    /\ \/ cond.field = ""
       \/ operatorOf(cond) \notin SupportedOperators
       \/ /\ operatorOf(cond) = "between"
          /\ ~IsPair(cond.values)
          /\ ~IsPair(cond.value)
       \/ /\ operatorOf(cond) \in {"in", "not_in"}
          /\ \/ cond.values.t \notin {"undef", "list"}
             \/ cond.values.t = "undef" /\ cond.value.t = "undef"

MatchedCondition == eval.fn = "matchCondition" /\ eval.done

\* C13: a malformed condition never matches any row and never raises: a
\* condition without a field, with an unsupported operator, a between whose
\* payload is not a pair, and an in / not_in whose payload has the wrong
\* shape each evaluate to false for every row, without throwing.
C13_MalformedNeverMatches ==
    (MatchedCondition /\ Malformed(eval.cond)) => (~eval.throws /\ ~eval.out)

\* Where a call throws, and which malformed conditions match a row
ThrowsOnlyForIn ==
    (MatchedCondition /\ eval.throws) =>
        /\ operatorOf(eval.cond) \in {"in", "not_in"}
        /\ eval.cond.values.t \notin {"undef", "list"}

MalformedMatchesOnlyForIn ==
    (MatchedCondition /\ Malformed(eval.cond) /\ eval.out) =>
        /\ operatorOf(eval.cond) \in {"in", "not_in"}
        /\ eval.cond.field # ""


\* ---- C14 (SpecFilter) ---------------------------------------------------
Compared == eval.fn = "compare" /\ eval.done

\* C14: for eq and ne, two nullish values (null, undefined or empty string)
\* always compare equal, and a nullish value and a non-nullish value never
\* compare equal; ne is the negation of eq in both cases.
C14_NullishEquality ==
    (Compared /\ eval.op \in {"eq", "ne"}) =>
        /\ (isNullish(eval.lhs) /\ isNullish(eval.rhs))
               => (eval.out <=> eval.op = "eq")
        /\ (isNullish(eval.lhs) # isNullish(eval.rhs))
               => (eval.out <=> eval.op = "ne")

\* Apart from undefined against the string "undefined", C14 holds
NullishEqualityButUndefined ==
    (Compared /\ eval.op \in {"eq", "ne"}
       /\ {eval.lhs, eval.rhs} # {Undef, S("undefined")}) =>
        /\ (isNullish(eval.lhs) /\ isNullish(eval.rhs))
               => (eval.out <=> eval.op = "eq")
        /\ (isNullish(eval.lhs) # isNullish(eval.rhs))
               => (eval.out <=> eval.op = "ne")


\* ---- C15 (SpecFilter) ---------------------------------------------------
KindOf(a, b) == coercePair(a, b)[3]

\* C15: for every pair of values whose coercion kind is bool, gt, gte, lt and
\* lte evaluate to false, while eq is true exactly when the two booleans are
\* the same and ne exactly when they differ.
C15_BoolsAreNotOrdered ==
    (Compared /\ KindOf(eval.lhs, eval.rhs) = "bool") =>
        /\ eval.op \in {"gt", "gte", "lt", "lte"} => ~eval.out
        /\ eval.op = "eq" => (eval.out <=> toBool(eval.lhs) = toBool(eval.rhs))
        /\ eval.op = "ne" => (eval.out <=> toBool(eval.lhs) # toBool(eval.rhs))

\* true > false was asked, and the answer was false
C15_Witness ==
    /\ Compared
    /\ KindOf(eval.lhs, eval.rhs) = "bool"
    /\ toBool(eval.lhs) = 1
    /\ toBool(eval.rhs) = 0
    /\ eval.op = "gt"
    /\ ~eval.out


\* ---- C16 (SpecFilter) ---------------------------------------------------
JointDate(a, b) == toDateTime(a) # -1 /\ toDateTime(b) # -1

JointNumber(a, b) == toNumber(a) # -1 /\ toNumber(b) # -1

JointBool(a, b) == toBool(a) # -1 /\ toBool(b) # -1

\* The comparison of two strings under an operator
StringCompare(x, y, op) ==
    CASE op = "eq" -> x = y
      [] op = "ne" -> x # y
      [] op = "gt" -> StrRank(x) > StrRank(y)
      [] op = "gte" -> StrRank(x) >= StrRank(y)
      [] op = "lt" -> StrRank(x) < StrRank(y)
      [] op = "lte" -> StrRank(x) <= StrRank(y)
      [] OTHER -> FALSE

AsStrings(a, b, op) == StringCompare(coerceString(a), coerceString(b), op)

\* The statement as the claim words it: every pair of values that both parse
\* as numbers is compared numerically; every pair that is jointly neither
\* datetime, number nor bool is compared as strings
C16_ParseableNumbersCompareNumerically ==
    Compared =>
        /\ (eval.op = "gt" /\ JointNumber(eval.lhs, eval.rhs))
               => (eval.out <=> toNumber(eval.lhs) > toNumber(eval.rhs))
        /\ (/\ ~JointDate(eval.lhs, eval.rhs)
            /\ ~JointNumber(eval.lhs, eval.rhs)
            /\ ~JointBool(eval.lhs, eval.rhs))
               => (eval.out <=> AsStrings(eval.lhs, eval.rhs, eval.op))

\* C16: for all pairs (a, b) whose coercion kind is number (both values parse
\* as numbers and they do not both parse as datetimes), compare(a, b, gt)
\* equals (numeric a > numeric b); a pair that is not nullish on both sides
\* and cannot be coerced jointly to datetime, number or bool is compared as
\* strings.
C16_NumberKindComparesNumerically ==
    Compared =>
        /\ (/\ eval.op = "gt"
            /\ JointNumber(eval.lhs, eval.rhs)
            /\ ~JointDate(eval.lhs, eval.rhs))
               => (eval.out <=> toNumber(eval.lhs) > toNumber(eval.rhs))
        /\ (/\ ~(isNullish(eval.lhs) /\ isNullish(eval.rhs))
            /\ ~JointDate(eval.lhs, eval.rhs)
            /\ ~JointNumber(eval.lhs, eval.rhs)
            /\ ~JointBool(eval.lhs, eval.rhs))
               => (eval.out <=> AsStrings(eval.lhs, eval.rhs, eval.op))

\* A string and a number were compared as numbers
C16_Witness ==
    /\ Compared
    /\ eval.op = "gt"
    /\ eval.lhs = S("2")
    /\ eval.rhs = N(1)
    /\ ~JointDate(eval.lhs, eval.rhs)
    /\ eval.out


\* ---- C17 (SpecFilter) ---------------------------------------------------
\* A value coerced to a kind: the date, the number, the boolean (false 0,
\* true 1), or the place of its string in the order of strings
Coerced(kind, v) ==
    CASE kind = "datetime" -> toDateTime(v)
      [] kind = "number" -> toNumber(v)
      [] kind = "bool" -> toBool(v)
      [] OTHER -> StrRank(coerceString(v))

BetweenDone == eval.fn = "between" /\ eval.done

\* C17: between(cell, low, high) is false whenever the coercion of (cell, low)
\* or of (cell, high) yields kind null or the two coercions yield different
\* kinds, and otherwise is true if and only if cell >= low and cell <= high
\* under the common kind.
C17_BetweenNeedsCommonKind ==
    BetweenDone =>
        LET k1 == KindOf(eval.cell, eval.low)
            k2 == KindOf(eval.cell, eval.high)
        IN  IF k1 = "null" \/ k2 = "null" \/ k1 # k2
            THEN ~eval.out
            ELSE eval.out <=>
                     /\ Coerced(k1, eval.cell) >= Coerced(k1, eval.low)
                     /\ Coerced(k1, eval.cell) <= Coerced(k1, eval.high)

\* "1" is a number next to 0 and a boolean next to true: within both bounds,
\* and yet not between them
C17_Witness ==
    /\ BetweenDone
    /\ KindOf(eval.cell, eval.low) = "number"
    /\ KindOf(eval.cell, eval.high) = "bool"
    /\ toNumber(eval.cell) >= toNumber(eval.low)
    /\ toBool(eval.cell) <= toBool(eval.high)
    /\ ~eval.out


\* ---- C18 (SpecFilter) ---------------------------------------------------
Normalized == eval.fn = "normalizeRows" /\ eval.done

UniqueNames(headers) ==
    \A i, j \in 1..Len(headers) : headers[i] = headers[j] => i = j

\* C18: normalizeRows with a non-empty header list of unique names returns
\* exactly one record per raw row, in the same order, each record having
\* exactly the header names as keys, with record[header[i]] equal to
\* rawRow[i] when the row has a cell at position i and the empty string
\* otherwise (cells beyond the header length are ignored); with zero headers
\* or zero raw rows it returns an empty list.
C18_OneRecordPerRawRow ==
    Normalized =>
        LET headers == eval.headers
            rawRows == eval.rawRows
            out == eval.out
        IN  IF Len(headers) = 0 \/ Len(rawRows) = 0
            THEN Len(out) = 0
            ELSE UniqueNames(headers) =>
                     /\ Len(out) = Len(rawRows)
                     /\ \A r \in 1..Len(rawRows) :
                            /\ DOMAIN out[r] = {headers[i].s : i \in 1..Len(headers)}
                            /\ \A i \in 1..Len(headers) :
                                   out[r][headers[i].s] =
                                       IF i <= Len(rawRows[r]) THEN rawRows[r][i]
                                       ELSE S("")

\* Two headers, a row with one cell and a row with three
C18_Witness ==
    /\ Normalized
    /\ eval.headers = <<S("id"), S("name")>>
    /\ Len(eval.rawRows) = 2
    /\ Len(eval.rawRows[1]) = 1
    /\ Len(eval.rawRows[2]) = 3
    /\ Len(eval.out) = 2
    /\ eval.out[1]["name"] = S("")
    /\ eval.out[2]["name"] = eval.rawRows[2][2]


\* ---- C19 (SpecWrite) ----------------------------------------------------
\* appendRow of process p has read the sheet and built its row
AppendBuilt(p) ==
    /\ proc[p].op = "append"
    /\ proc[p].pc \in {"append", "done"}
    /\ req[p].read
    /\ Len(req[p].values) > 0

\* appendRow of process p has returned
Appended(p) ==
    AppendBuilt(p) /\ proc[p].pc = "done" /\ proc[p].result = OkResult

DataHas(data, h) == \E i \in 1..Len(data) : data[i].key = h

DataHasValue(data, h) ==
    \E i \in 1..Len(data) : data[i].key = h /\ data[i].value.t \notin {"undef", "null"}

\* One row, addressed after the rows read, one append call, appended = 1
OneRowAfterTheLast(p) ==
    /\ req[p].appends <= 1
    /\ AppendBuilt(p) =>
           /\ Len(req[p].append.values) = Len(headersOf(req[p].values))
           /\ req[p].append.row = Len(req[p].values) + 1
    /\ Appended(p) => (req[p].appends = 1 /\ req[p].appended = 1)

\* The statement as the claim words it: the cell is data[header] whenever
\* the data has that column
C19_CellIsDataOfColumn ==
    \A p \in Procs :
        /\ OneRowAfterTheLast(p)
        /\ AppendBuilt(p) =>
               \A i \in 1..Len(headersOf(req[p].values)) :
                   LET h == headersOf(req[p].values)[i].s
                   IN  req[p].append.values[i] =
                           IF DataHas(req[p].data, h) THEN DataGet(req[p].data, h)
                           ELSE S("")

\* C19: appendRow builds exactly one row with one cell per header in the
\* current header order, the cell being data[header] when the data has a
\* value other than null for that column and the empty string otherwise,
\* addresses it at row position totalRows + 1 of the fresh read, issues
\* exactly one append call, and returns appended = 1.
C19_AppendsOneAlignedRow ==
    \A p \in Procs :
        /\ OneRowAfterTheLast(p)
        /\ AppendBuilt(p) =>
               \A i \in 1..Len(headersOf(req[p].values)) :
                   LET h == headersOf(req[p].values)[i].s
                   IN  req[p].append.values[i] =
                           IF DataHasValue(req[p].data, h)
                           THEN DataGet(req[p].data, h)
                           ELSE S("")

\* A row was appended after three rows read, with an empty cell for the
\* column the data gives as null
C19_Witness ==
    \E p \in Procs :
        /\ Appended(p)
        /\ Len(req[p].values) = 4
        /\ req[p].append.row = 5
        /\ DataHas(req[p].data, "name")
        /\ ~DataHasValue(req[p].data, "name")
        /\ req[p].append.values = <<N(2), S("")>>
        /\ sheet[proc[p].key][5] = <<N(2), S("")>>


\* ---- C20 (SpecWrite) ----------------------------------------------------
\* updateRows of process p has read the sheet and chosen what to write
UpdateChosen(p) ==
    proc[p].op = "update" /\ req[p].read /\ req[p].values # <<>>

\* The cell of column c in a row of the snapshot, "" past its end
SnapshotCell(row, c) == IF c <= Len(row) THEN row[c] ELSE S("")

\* The values the patch gives for a column
PatchValues(data, h) == {data[e].value : e \in {x \in 1..Len(data) : data[x].key = h}}

\* C20: every range written by updateRows addresses sheet row
\* dataRowIndex + 2 of a row that matched the predicate in the fresh snapshot
\* (the first data row has index 0 and is sheet row 2), and the values written
\* for it equal that snapshot row with only the columns named in the patch
\* overwritten; no range is written for a row outside the target set.
C20_WritesOnlyPatchedColumns ==
    \A p \in Procs :
        UpdateChosen(p) =>
            \A b \in 1..Len(req[p].batch) :
                LET rq == req[p].batch[b]
                    headers == headersOf(req[p].values)
                IN  /\ rq.row \in 2..Len(req[p].values)
                    /\ IsTarget(p, rq.row - 1)
                    /\ Len(rq.values) = Len(headers)
                    /\ \A c \in 1..Len(headers) :
                           LET snap == SnapshotCell(req[p].values[rq.row], c)
                           IN  IF DataHas(req[p].data, headers[c].s)
                               THEN rq.values[c] \in
                                        {snap} \cup PatchValues(req[p].data, headers[c].s)
                               ELSE rq.values[c] = snap

\* The third data row, which lacks its name, was written at sheet row 4 with
\* its id kept and the name of the patch
C20_Witness ==
    \E p \in Procs :
        /\ UpdateChosen(p)
        /\ proc[p].pc = "done"
        /\ proc[p].result = OkResult
        /\ ~DataHas(req[p].data, "id")
        /\ \E b \in 1..Len(req[p].batch) :
               /\ req[p].batch[b].row = 4
               /\ req[p].values[4] = <<N(1)>>
               /\ req[p].batch[b].values = <<N(1), S("x")>>
        /\ sheet[proc[p].key][4] = <<N(1), S("x")>>


\* ---- C21 (SpecRace) -----------------------------------------------------
\* The step in which the backend applies the batched write of p
BatchWritten(p) ==
    /\ proc[p].pc = "batch"
    /\ proc'[p].pc = "done"
    /\ proc'[p].result = OkResult

\* The columns of the header read by p that its patch does not name
UnnamedColumns(p) ==
    {c \in 1..Len(headersOf(req[p].values)) :
        ~DataHas(req[p].data, headersOf(req[p].values)[c].s)}

\* The statement as the claim words it: a column the patch does not name
\* keeps the value the backend held immediately before the batched write
C21_UnnamedColumnsKeepBackendValue ==
    [][\A p \in Procs :
          BatchWritten(p) =>
              \A b \in 1..Len(req[p].batch), c \in UnnamedColumns(p) :
                  SnapshotCell(sheet'[proc[p].key][req[p].batch[b].row], c)
                      = SnapshotCell(sheet[proc[p].key][req[p].batch[b].row], c)]_vars

\* C21: in every interleaving of updateRows calls, an updateRows call writes
\* whole rows: in a row it writes, a column that the patch does not name
\* receives the value it had in that call's fresh snapshot (not the value the
\* backend holds immediately before the batched write, which is lost when
\* another writer changed it in between), and rows it does not write keep
\* their backend value.
C21_UnnamedColumnsGetSnapshotValue ==
    [][\A p \in Procs :
          BatchWritten(p) =>
              /\ \A b \in 1..Len(req[p].batch), c \in UnnamedColumns(p) :
                     SnapshotCell(sheet'[proc[p].key][req[p].batch[b].row], c)
                         = SnapshotCell(req[p].values[req[p].batch[b].row], c)
              /\ \A r \in 1..Len(sheet[proc[p].key]) :
                     (\A b \in 1..Len(req[p].batch) : req[p].batch[b].row # r)
                         => sheet'[proc[p].key][r] = sheet[proc[p].key][r]]_vars

\* Two calls read the same snapshot and wrote the same row; the backend holds
\* the row of p, and a column that p's patch does not name has lost the value
\* that q wrote to it
C21_Witness ==
    \E p, q \in Procs :
        /\ p # q
        /\ proc[p].op = "update" /\ proc[p].pc = "done" /\ req[p].updated > 0
        /\ proc[q].op = "update" /\ proc[q].pc = "done" /\ req[q].updated > 0
        /\ req[p].values = req[q].values
        /\ \E b \in 1..Len(req[p].batch), d \in 1..Len(req[q].batch) :
               LET mine == req[p].batch[b]
                   theirs == req[q].batch[d]
               IN  /\ mine.row = theirs.row
                   /\ sheet[proc[p].key][mine.row] = mine.values
                   /\ \E c \in UnnamedColumns(p) :
                          /\ theirs.values[c] # mine.values[c]
                          /\ theirs.values[c]
                                 # SnapshotCell(req[q].values[theirs.row], c)


\* ---- C22 (Spec) ---------------------------------------------------------
\* The response of fetch f arrives in this step, and it is a failure
FetchFails(f) ==
    /\ fetches[f].st = "served"
    /\ ~fetches[f].ok
    /\ fetches'[f].st = "none"

\* Every caller awaiting the promise of fetch f, its starter included,
\* completes with the error
FailureSurfaced(f) ==
    /\ proc[f].pc = "wait" /\ proc[f].awaiting = f
    /\ \A q \in Procs :
           (proc[q].pc = "wait" /\ proc[q].awaiting = f) =>
               proc'[q].pc = "done" /\ proc'[q].result = ErrorResult

\* No backend request is sent in this step
NoRetry == \A g \in Procs : fetches'[g].st = "sent" => fetches'[g] = fetches[g]

\* Neither a valid or expired entry nor a pending fetch can answer a cached
\* read of key k
NeedsFetch(k) == ~HasKey(readCache, k) /\ inflightReads[k] = 0

NeedsFetchNext(k) == ~HasKey(readCache', k) /\ inflightReads'[k] = 0

\* Caller p issues a useCache=true read of key k in this step
CachedReadIssued(p, k) ==
    /\ proc[p].pc = "idle"
    /\ proc'[p].pc # "idle"
    /\ proc'[p].op = "read"
    /\ proc'[p].useCache
    /\ proc'[p].key = k

\* From a failure to the next cached read of the key nothing can answer that
\* read, and the read then starts a fetch of its own
NextCachedReadFetches ==
    \A k \in Keys :
        NeedsFetch(k) =>
            IF \E p \in Procs : CachedReadIssued(p, k)
            THEN \A p \in Procs :
                     CachedReadIssued(p, k) =>
                         /\ proc'[p].pc = "wait"
                         /\ proc'[p].awaiting = p
                         /\ fetches'[p] = NewFetch(k, TRUE, now)
                         /\ inflightReads'[k] = p
            ELSE NeedsFetchNext(k)

\* The claim as stated, of every failed fetch: also after the failure of a
\* fetch started with useCache=false the next cached read has to fetch
C22_EveryFailureForcesNewFetch ==
    [][\A f \in Procs :
           FetchFails(f) =>
               /\ FailureSurfaced(f)
               /\ NoRetry
               /\ readCache' = readCache
               /\ NeedsFetchNext(fetches[f].key)]_vars

\* C22: when a backend fetch fails, the failure is surfaced to the caller
\* that started it and to every caller coalesced onto it, no retry is issued
\* and no cache entry is created or changed; when the failed fetch was started
\* by a useCache=true read, the key then has no entry and no pending fetch,
\* so the next useCache=true read for that key issues a new backend fetch.
C22_FailureSurfacedNothingCached ==
    [][/\ \A f \in Procs :
              FetchFails(f) =>
                  /\ FailureSurfaced(f)
                  /\ NoRetry
                  /\ readCache' = readCache
                  /\ fetches[f].useCache => NeedsFetchNext(fetches[f].key)
       /\ NextCachedReadFetches]_vars

\* Two callers of one cached fetch both hold its error, and nothing is left
\* of the fetch
C22_Witness ==
    \E p, q \in Procs :
        /\ p # q
        /\ \A c \in {p, q} :
               /\ proc[c].pc = "done"
               /\ proc[c].op = "read"
               /\ proc[c].useCache
               /\ proc[c].src = "fetch"
               /\ proc[c].result = ErrorResult
        /\ proc[p].key = proc[q].key
        /\ NeedsFetch(proc[p].key)
        /\ fetches[p] = NoFetch /\ fetches[q] = NoFetch


\* ---- C23 (SpecLive) -----------------------------------------------------
\* A readValues call that awaits a promise returns, with rows or an error
Completes(p) ==
    (proc[p].pc = "wait") ~>
        (proc[p].pc = "done" /\ proc[p].result.st \in {"rows", "error"})

\* A waiting caller awaits a fetch that has not settled
WaitsOnUnsettled ==
    \A q \in Procs :
        proc[q].pc = "wait" =>
            /\ proc[q].awaiting \in Procs
            /\ fetches[proc[q].awaiting].st \in {"sent", "served"}

\* A caller stops waiting only in the step in which the fetch it awaits settles
CompletesOnlyOnSettle ==
    \A q \in Procs :
        (proc[q].pc = "wait" /\ proc'[q].pc # "wait") =>
            /\ fetches[proc[q].awaiting].st = "served"
            /\ fetches'[proc[q].awaiting].st = "none"
            /\ proc'[q].pc = "done"

\* A cached read of a key whose fetch is pending, issued with no valid entry,
\* awaits that fetch
LaterReadJoins ==
    \A p \in Procs, k \in Keys :
        (/\ CachedReadIssued(p, k)
         /\ inflightReads[k] # 0
         /\ ~(HasKey(readCache, k) /\ IsFresh(CacheGet(readCache, k), now))) =>
            /\ proc'[p].pc = "wait"
            /\ proc'[p].awaiting = inflightReads[k]
            /\ fetches' = fetches

\* C23: if every backend fetch eventually settles, every readValues call
\* eventually completes with rows or with an error; a caller coalesced onto
\* an in-flight fetch completes only when that fetch settles, so while the
\* fetch in flight for a key has not settled, its waiters and every later
\* useCache=true read for that key with no valid cache entry stay blocked.
C23_CompletesWhenFetchesSettle ==
    /\ \A p \in Procs : Completes(p)
    /\ []WaitsOnUnsettled
    /\ [][CompletesOnlyOnSettle /\ LaterReadJoins]_vars

\* A later cached read is blocked on a fetch another caller started, which
\* the backend has not answered
C23_Witness ==
    \E q \in Procs :
        /\ proc[q].pc = "wait"
        /\ proc[q].useCache
        /\ proc[q].awaiting \in Procs \ {q}
        /\ proc[proc[q].awaiting].pc = "wait"
        /\ fetches[proc[q].awaiting].st = "sent"
        /\ proc[q].at > proc[proc[q].awaiting].at


\* ---- C24 (Spec) ---------------------------------------------------------
\* Caller p is answered from the cache in this step
HitBy(p) == proc[p].pc = "idle" /\ proc'[p].pc = "done" /\ proc'[p].src = "cache"

\* The hit returns the rows of the entry, whose fetch was issued (timestamp)
\* at most CACHE_TTL ago, and leaves the entry, timestamp and rows unchanged,
\* in the most recently used place
HitWithinTtl(p) ==
    LET k == proc'[p].key
        entry == CacheGet(readCache, k)
        moved == readCache'[Len(readCache')]
    IN  /\ HasKey(readCache, k)
        /\ now - entry.timestamp <= CACHE_TTL
        /\ proc'[p].result = RowsResult(entry.data)
        /\ moved.key = k
        /\ moved.timestamp = entry.timestamp
        /\ moved.data = entry.data

\* Fetch f settles in this step and stores its rows
StoredBy(f, e) ==
    /\ fetches[f].st = "served"
    /\ fetches'[f].st = "none"
    /\ fetches[f].ok
    /\ fetches[f].useCache
    /\ fetches[f].key = e.key

\* Every entry of the next state was there before with the same timestamp
\* and rows, or is stored by a fetch that settles now: then its rows are the
\* rows served to that fetch and its timestamp is the time at which the read
\* call that started the fetch was issued
TimestampIsIssueTime ==
    \A i \in 1..Len(readCache') :
        LET e == readCache'[i]
        IN  \/ /\ HasKey(readCache, e.key)
               /\ CacheGet(readCache, e.key).timestamp = e.timestamp
               /\ CacheGet(readCache, e.key).data = e.data
            \/ \E f \in Procs :
                   /\ StoredBy(f, e)
                   /\ e.timestamp = proc[f].at
                   /\ e.data = fetches[f].rows

\* C24: a cache hit never returns rows whose backend fetch was initiated more
\* than CACHE_TTL before the hit: an entry's timestamp is the time at which
\* the read call that fetched it was issued (not the time the fetch
\* completed), and a cache hit moves the entry to most-recently-used without
\* changing its timestamp.
C24_HitWithinTtlOfIssue ==
    [][/\ \A p \in Procs : HitBy(p) => HitWithinTtl(p)
       /\ TimestampIsIssueTime]_vars

\* A hit on an entry issued earlier than the hit, moved behind another entry
C24_Witness ==
    \E p \in Procs :
        /\ proc[p].pc = "done"
        /\ proc[p].src = "cache"
        /\ Len(readCache) = 2
        /\ readCache[2].key = proc[p].key
        /\ readCache[2].timestamp < proc[p].at
        /\ readCache[1].timestamp > readCache[2].timestamp


\* ---- C25 (SpecWrite) ----------------------------------------------------
\* The rows a cached read issued in this step is answered with, when they
\* have already been read from the backend: the rows of the entry it hits, or
\* the rows served to the pending fetch it joins
AnsweredWith(p) ==
    IF proc'[p].src = "cache"
    THEN {proc'[p].result.rows}
    ELSE IF proc'[p].awaiting # p
            /\ fetches[proc'[p].awaiting].st = "served"
            /\ fetches[proc'[p].awaiting].ok
    THEN {fetches[proc'[p].awaiting].rows}
    ELSE {}

\* C25: after an updateRows or appendRow call on a key has completed its
\* backend write, every useCache=true read issued later for that key returns
\* rows that were read from the backend after that write, in every
\* interleaving of readers and writers.  (Only the writes of the service
\* change the sheet here, so rows read after every completed write are the
\* rows the sheet holds when the read is issued.)
C25_CachedReadSeesCompletedWrites ==
    [][\A p \in Procs :
           CachedReadIssued(p, WriteKey) =>
               \A rows \in AnsweredWith(p) : rows = sheet[WriteKey]]_vars


\* ---- C26 (SpecUpsert) ---------------------------------------------------
\* The patch data, as the row appendRow builds from it, satisfies the where
\* predicate of the request
PatchSatisfiesWhere ==
    LET headers == headersOf(sheet[WriteKey])
    IN  /\ Len(headers) > 0
        /\ Predicate(eval.where,
                     normalizeRow(headers, alignedRow(headers, eval.data, 1)))

\* C26: upsert is idempotent when run sequentially: when the same updateSheet
\* request with upsert=true, whose patch data satisfies the where predicate,
\* is applied twice in sequence, the second request appends no row and leaves
\* the dataset unchanged.  (writeCalls = 2: the second request is running.)
C26_SecondUpsertChangesNothing ==
    [][(writeCalls = 2 /\ PatchSatisfiesWhere) =>
           /\ sheet' = sheet
           /\ \A p \in Writers : proc'[p].op # "append"]_vars


\* ---- C27 (SpecFilter) ---------------------------------------------------
\* C27: eq is reflexive on every coercion kind: for every non-nullish value
\* v, compare(v, v, eq) is true and inList(v, [v]) is true, including values
\* that are coerced to datetime.
C27_EqIsReflexive ==
    (Compared /\ eval.op = "eq" /\ eval.lhs = eval.rhs /\ ~isNullish(eval.lhs)) =>
        /\ eval.out
        /\ inList(eval.lhs, <<eval.rhs>>)

====
